---- MODULE Spec2Model ----
(***************************************************************************)
(* Fork choice (c2_blockchain/p5_fork_choice.rs): the ForkChoice trait     *)
(* with its provided best_chain reduction, the three policies              *)
(* LongestChainRule, HeaviestChainRule and MostBlocksWithEvenHash, the     *)
(* mining helper mine_extra_hard and the fork fixture; and the ATM state   *)
(* machine (c1_state_machine/p3_atm.rs).                                   *)
(*                                                                         *)
(* Machine words are scaled from 64 to WordBits bits; every u64 operation  *)
(* keeps its width.  An addition that leaves the word panics when the      *)
(* build has overflow checks (debug) and wraps when it has not (release):  *)
(* the build profile is the variable overflow_checks, chosen in Init.      *)
(* crate::hash is an oracle: a fixed but arbitrary table from headers to   *)
(* words.                                                                  *)
(*                                                                         *)
(* Spec     : first_chain_is_better and best_chain on short chains.        *)
(* SpecLong : the same calls on chains of OverflowLen headers, where the   *)
(*            work total of HeaviestChainRule can leave the word.          *)
(* SpecMine : the loop of mine_extra_hard, one iteration per step.         *)
(* FairSpecMine : the same loop under a hash fixed before the call, with   *)
(*            weak fairness of its step.                                   *)
(* SpecAtm  : Atm::next_state, called again and again from Waiting.        *)
(* SpecAtmAny, SpecAtmLong : the same from any state, and from registers   *)
(*            long enough for keys_to_amount to overflow.                  *)
(* SpecFixture : create_fork_one_side_longer_other_side_heavier.           *)
(***************************************************************************)
EXTENDS Integers, Sequences, FiniteSets, TLC

\* ------------------------------------------------------------- bounds
WordBits == 10
MaxChainLen == 2
MaxCandidates == 2
MaxMineIter == 4
MaxKeys == 2
MaxCash == 5

\* ---------------------------------------------------------- constants
U64_MAX == 2^WordBits - 1

THRESHOLD == U64_MAX \div 100

VARIABLES
    hashTab,            \* the oracle behind crate::hash: header -> u64
    overflow_checks,    \* TRUE: debug build (overflow panics); FALSE: release (wraps)
    candidate_chains,   \* the arguments of the call: a list of chains
    call,               \* which function was called, under which policy
    pc,                 \* "idle" | "returned" | "panicked"
    ret,                \* the value returned: [index, chain] or [verdict]
    block,              \* mine_extra_hard: the block being mined
    block_at_call,      \* mine_extra_hard: the block as it was passed in
    threshold,          \* mine_extra_hard: the threshold argument
    i,                  \* mine_extra_hard: the loop counter
    tested,             \* mine_extra_hard: the digests hashed so far, in order
    mine_pc,            \* "off" | "loop" | "returned" | "panicked"
    atm,                \* struct Atm: cash_inside, expected_pin_hash, keystroke_register
    keysTab,            \* the oracle behind crate::hash on Vec<Key>: keys -> u64
    atm_call,           \* the last call of Atm::next_state: its transition, the Auth it found
    atm_pc,             \* "off" | "ready" | "panicked"
    cash_at_start,      \* cash_inside of the initial state
    withdrawn,          \* the sum of withdraw_amount over the successful withdrawals
    session,            \* since the machine last was Waiting: card swiped, PIN verified
    fixture             \* create_fork_one_side_longer_other_side_heavier: its locals

vars == <<hashTab, overflow_checks, candidate_chains, call, pc, ret,
          block, block_at_call, threshold, i, tested, mine_pc,
          atm, keysTab, atm_call, atm_pc, cash_at_start, withdrawn, session,
          fixture>>

fork_vars == <<candidate_chains, call, pc, ret>>
mine_vars == <<block, block_at_call, threshold, i, tested, mine_pc>>
atm_vars == <<atm, keysTab, atm_call, atm_pc, cash_at_start, withdrawn, session>>

\* ------------------------------------------------------------ headers
Header(parent, height, extrinsics_root, consensus_digest) ==
    [parent |-> parent, height |-> height,
     extrinsics_root |-> extrinsics_root, consensus_digest |-> consensus_digest]

\* The headers the candidate chains are built from.
Pool == {Header(0, 0, 0, 0), Header(0, 1, 2, 1)}

\* The words the oracle answers with: most work and even, one less and odd,
\* on the threshold (no work, even), above it (no work, odd).
HashSamples == {0, 1, THRESHOLD, THRESHOLD + 1}

hash(header) == hashTab[header]

Policies == {"LongestChainRule", "HeaviestChainRule", "MostBlocksWithEvenHash"}

\* A result of a call that may panic.
Ok(v) == [panic |-> FALSE, val |-> v]
Panic == [panic |-> TRUE, val |-> <<>>]

\* ----------------------------------------------------- LongestChainRule
Mut_Longest_strict(chain_1, chain_2) == Ok(Len(chain_1) > Len(chain_2))

Mut_Longest_reversed(chain_1, chain_2) == Ok(Len(chain_1) <= Len(chain_2))

LongestChainRule_first_chain_is_better(chain_1, chain_2) ==
    Ok(Len(chain_1) >= Len(chain_2))

\* ---------------------------------------------------- HeaviestChainRule
\* The closure mapped over the headers.
header_work(header) ==
    IF hash(header) > THRESHOLD THEN 0 ELSE THRESHOLD - hash(header)

\* One step of Iterator::sum::<u64>, acc + work: the fold's + inherits the
\* build's overflow checks.
add_work(acc, work) ==
    LET s == acc + work
    IN  IF s > U64_MAX
        THEN IF overflow_checks THEN Panic ELSE Ok(s % (U64_MAX + 1))
        ELSE Ok(s)

\* Iterator::sum::<u64> over chain[lo..hi], left to right from acc.  The
\* range is folded as its first half and then its second half, which keeps
\* the evaluation shallow on long chains.
RECURSIVE sum(_, _, _, _)
sum(chain, lo, hi, acc) ==
    IF lo > hi THEN Ok(acc)
    ELSE IF lo = hi THEN add_work(acc, header_work(chain[lo]))
    ELSE LET mid == (lo + hi) \div 2
             left == sum(chain, lo, mid, acc)
         IN  IF left.panic THEN Panic ELSE sum(chain, mid + 1, hi, left.val)

Mut_Heaviest_non_strict(chain_1, chain_2) ==
    LET work_1 == sum(chain_1, 1, Len(chain_1), 0)
        work_2 == sum(chain_2, 1, Len(chain_2), 0)
    IN  IF work_1.panic \/ work_2.panic THEN Panic
        ELSE Ok(work_1.val >= work_2.val)

HeaviestChainRule_first_chain_is_better(chain_1, chain_2) ==
    LET work_1 == sum(chain_1, 1, Len(chain_1), 0)
    IN  IF work_1.panic THEN Panic
        ELSE LET work_2 == sum(chain_2, 1, Len(chain_2), 0)
             IN  IF work_2.panic THEN Panic
                 ELSE Ok(work_1.val > work_2.val)

\* ----------------------------------------------- MostBlocksWithEvenHash
\* chain.iter().filter(|header| hash(header) % 2 == 0).count() over
\* chain[lo..hi], counted as its first half and then its second half.
RECURSIVE count_even(_, _, _)
count_even(chain, lo, hi) ==
    IF lo > hi THEN 0
    ELSE IF lo = hi THEN (IF hash(chain[lo]) % 2 = 0 THEN 1 ELSE 0)
    ELSE LET mid == (lo + hi) \div 2
         IN  count_even(chain, lo, mid) + count_even(chain, mid + 1, hi)

Mut_Even_non_strict(chain_1, chain_2) ==
    Ok(count_even(chain_1, 1, Len(chain_1)) >= count_even(chain_2, 1, Len(chain_2)))

MostBlocksWithEvenHash_first_chain_is_better(chain_1, chain_2) ==
    LET num_chain_1 == count_even(chain_1, 1, Len(chain_1))
        num_chain_2 == count_even(chain_2, 1, Len(chain_2))
    IN  Ok(num_chain_1 > num_chain_2)

\* ------------------------------------------------------------ ForkChoice
Mut_first_chain_is_better_rejects_empty(policy, chain_1, chain_2) ==
    IF Len(chain_1) = 0 \/ Len(chain_2) = 0 THEN Panic
    ELSE CASE policy = "LongestChainRule" ->
                 LongestChainRule_first_chain_is_better(chain_1, chain_2)
           [] policy = "HeaviestChainRule" ->
                 HeaviestChainRule_first_chain_is_better(chain_1, chain_2)
           [] policy = "MostBlocksWithEvenHash" ->
                 MostBlocksWithEvenHash_first_chain_is_better(chain_1, chain_2)

first_chain_is_better(policy, chain_1, chain_2) ==
    CASE policy = "LongestChainRule" ->
            LongestChainRule_first_chain_is_better(chain_1, chain_2)
      [] policy = "HeaviestChainRule" ->
            HeaviestChainRule_first_chain_is_better(chain_1, chain_2)
      [] policy = "MostBlocksWithEvenHash" ->
            MostBlocksWithEvenHash_first_chain_is_better(chain_1, chain_2)

\* The loop of best_chain: k is the loop index, best the index of best_chain.
RECURSIVE best_chain_loop(_, _, _, _)
best_chain_loop(policy, chains, k, best) ==
    IF k > Len(chains) THEN Ok([index |-> best, chain |-> chains[best]])
    ELSE LET better == first_chain_is_better(policy, chains[k], chains[best])
         IN  IF better.panic THEN Panic
             ELSE best_chain_loop(policy, chains, k + 1,
                                  IF better.val THEN k ELSE best)

Mut_best_chain_no_bounds_check(policy, chains) ==
    IF Len(chains) = 0 THEN Ok([index |-> 0, chain |-> <<>>])
    ELSE best_chain_loop(policy, chains, 2, 1)

\* candidate_chains[0] panics on an empty list (index out of bounds).
best_chain(policy, chains) ==
    IF Len(chains) = 0 THEN Panic
    ELSE best_chain_loop(policy, chains, 2, 1)

\* ------------------------------------------------------ the calls' inputs
RECURSIVE SeqsUpTo(_, _)
SeqsUpTo(S, n) == IF n = 0 THEN {<<>>} ELSE SeqsUpTo(S, n - 1) \cup [1..n -> S]

Chains == SeqsUpTo(Pool, MaxChainLen)

\* Lists one longer than MaxCandidates, of chains of at most one header.
WideLists == [1..(MaxCandidates + 1) -> SeqsUpTo(Pool, 1)]

CandidateLists == SeqsUpTo(Chains, MaxCandidates) \cup WideLists

\* The least number of headers whose work can leave the word.
OverflowLen == (U64_MAX \div THRESHOLD) + 1

\* Long chains: one header repeated, up to where the total can overflow.
LongChains == {[k \in 1..n |-> h] : n \in (OverflowLen - 1)..OverflowLen, h \in Pool}

\* A long chain with a short one, in either order, and two long chains.
LongLists == {<<l, s>> : l \in LongChains, s \in SeqsUpTo(Pool, 1)}
             \cup {<<s, l>> : l \in LongChains, s \in SeqsUpTo(Pool, 1)}
             \cup (LongChains \X LongChains)

\* ------------------------------------------------- the ATM's data types
\* enum Key
NumericKeys == {"One", "Two", "Three", "Four"}
Keys == NumericKeys \cup {"Enter"}

\* enum Action
SwipeCard(h) == [kind |-> "SwipeCard", hash |-> h, key |-> "none"]
PressKey(key) == [kind |-> "PressKey", hash |-> 0, key |-> key]

\* enum Auth; pin is the enclosed PIN hash, read only when Authenticating.
Waiting == [tag |-> "Waiting", pin |-> 0]
Authenticating(h) == [tag |-> "Authenticating", pin |-> h]
Authenticated == [tag |-> "Authenticated", pin |-> 0]

\* struct Atm
Atm(cash_inside, expected_pin_hash, keystroke_register) ==
    [cash_inside |-> cash_inside, expected_pin_hash |-> expected_pin_hash,
     keystroke_register |-> keystroke_register]

NoAtmCall == [t |-> [kind |-> "none", hash |-> 0, key |-> "none"], from |-> Waiting]

NoSession == [swiped |-> FALSE, pin_ok |-> FALSE]

AtmOff ==
    /\ atm = Atm(0, Waiting, <<>>)
    /\ keysTab = [k \in {} |-> 0]
    /\ atm_call = NoAtmCall
    /\ atm_pc = "off"
    /\ cash_at_start = 0
    /\ withdrawn = 0
    /\ session = NoSession

\* The locals of the fixture before it is called.
NoFixture ==
    [pc |-> "off", b1 |-> Header(0, 0, 0, 0), b2 |-> Header(0, 0, 0, 0),
     c2 |-> Header(0, 0, 0, 0), i |-> 0,
     common |-> <<>>, longer |-> <<>>, more_work |-> <<>>]

FixtureOff == fixture = NoFixture

NoCall == [fn |-> "none", policy |-> "none"]

\* Nothing returned (yet, or ever: the call panicked).
NoRet == [none |-> TRUE]

MineOff ==
    /\ block = [header |-> Header(0, 0, 0, 0), body |-> <<>>]
    /\ block_at_call = block
    /\ threshold = 0
    /\ i = 0
    /\ tested = <<>>
    /\ mine_pc = "off"

Init ==
    /\ hashTab \in [Pool -> HashSamples]
    /\ overflow_checks \in BOOLEAN
    /\ candidate_chains \in CandidateLists
    /\ call = NoCall
    /\ pc = "idle"
    /\ ret = NoRet
    /\ MineOff
    /\ AtmOff
    /\ FixtureOff

\* ------------------------------------------------------------- the calls
\* best_chain(candidate_chains): the slice returned is the candidate at index.
CallBestChain(policy) ==
    /\ pc = "idle"
    /\ call' = [fn |-> "best_chain", policy |-> policy]
    /\ \E r \in {best_chain(policy, candidate_chains)} :
          /\ pc' = IF r.panic THEN "panicked" ELSE "returned"
          /\ ret' = IF r.panic THEN NoRet ELSE r.val
    /\ UNCHANGED <<hashTab, overflow_checks, candidate_chains, mine_vars, atm_vars, fixture>>

\* first_chain_is_better(candidate_chains[1], candidate_chains[2])
CallFirstChainIsBetter(policy) ==
    /\ pc = "idle"
    /\ Len(candidate_chains) >= 2
    /\ call' = [fn |-> "first_chain_is_better", policy |-> policy]
    /\ \E r \in {first_chain_is_better(policy, candidate_chains[1], candidate_chains[2])} :
          /\ pc' = IF r.panic THEN "panicked" ELSE "returned"
          /\ ret' = IF r.panic THEN NoRet ELSE [verdict |-> r.val]
    /\ UNCHANGED <<hashTab, overflow_checks, candidate_chains, mine_vars, atm_vars, fixture>>

Next ==
    \/ \E policy \in Policies : CallBestChain(policy)
    \/ \E policy \in Policies : CallFirstChainIsBetter(policy)

Spec == Init /\ [][Next]_vars

\* The same calls on chains long enough for the work total to overflow.
InitLong ==
    /\ hashTab \in [Pool -> HashSamples]
    /\ overflow_checks \in BOOLEAN
    /\ candidate_chains \in LongLists
    /\ call = NoCall
    /\ pc = "idle"
    /\ ret = NoRet
    /\ MineOff
    /\ AtmOff
    /\ FixtureOff

SpecLong == InitLong /\ [][Next]_vars

\* ------------------------------------------------------- mine_extra_hard
ForkOff ==
    /\ candidate_chains = <<>>
    /\ call = NoCall
    /\ pc = "idle"
    /\ ret = NoRet

\* The state on entry to the loop of mine_extra_hard(block, threshold): i = 1.
\* No header has been hashed yet: the oracle answers as it is asked.
InitMine ==
    /\ hashTab = [h \in {} |-> 0]
    /\ overflow_checks \in BOOLEAN
    /\ ForkOff
    /\ AtmOff
    /\ FixtureOff
    /\ \E d0 \in {0, U64_MAX - 2}, body \in {<<>>, <<1, 2, 3>>} :
            block = [header |-> Header(THRESHOLD, 1, 2, d0), body |-> body]
    /\ block_at_call = block
    /\ threshold \in {0, 1, THRESHOLD, U64_MAX}
    /\ i = 1
    /\ tested = <<>>
    /\ mine_pc = "loop"

\* hash(&block.header) < threshold
Mut_below_threshold_or_equal(h, t) == h <= t

below_threshold(h, t) == h < t

\* One iteration of the loop, with the new header hashing to h.
mine_iteration(digest, h) ==
    LET header == [block.header EXCEPT !.consensus_digest = digest]
    IN  /\ block' = [block EXCEPT !.header = header]
        /\ hashTab' = IF header \in DOMAIN hashTab THEN hashTab
                      ELSE (header :> h) @@ hashTab
        /\ tested' = Append(tested, digest)
        /\ IF below_threshold(hashTab'[header], threshold)
           THEN mine_pc' = "returned" /\ i' = i
           ELSE mine_pc' = "loop" /\ i' = i + 1
        /\ UNCHANGED <<overflow_checks, block_at_call, threshold, fork_vars, atm_vars, fixture>>

\* block.header.consensus_digest + i leaves the word in a debug build.
MineOverflowPanic ==
    /\ mine_pc = "loop"
    /\ i <= MaxMineIter
    /\ block.header.consensus_digest + i > U64_MAX
    /\ overflow_checks
    /\ mine_pc' = "panicked"
    /\ UNCHANGED <<hashTab, overflow_checks, block, block_at_call, threshold,
                   i, tested, fork_vars, atm_vars, fixture>>

MineStep ==
    /\ mine_pc = "loop"
    /\ i <= MaxMineIter
    /\ LET d == block.header.consensus_digest + i
       IN  /\ d > U64_MAX => ~overflow_checks
           /\ \E h \in HashSamples : mine_iteration(d % (U64_MAX + 1), h)

NextMine == MineStep \/ MineOverflowPanic

SpecMine == InitMine /\ [][NextMine]_vars

\* The digests whose header the fixed oracle below hashes to 0: every
\* choice among the first digests the search can reach.
SolvingDigests == SUBSET {0, 1, 2, 3, U64_MAX - 1}

\* The block passed in, with every value of consensus_digest.
MineHeaders == {Header(THRESHOLD, 1, 2, d) : d \in 0..U64_MAX}

\* The same loop under an oracle fixed before the call, so that whether a
\* digest below the threshold exists is decided by the initial state.
InitMineFixed ==
    /\ \E g \in SolvingDigests :
            hashTab = [h \in MineHeaders |->
                          IF h.consensus_digest \in g THEN 0 ELSE THRESHOLD + 1]
    /\ overflow_checks \in BOOLEAN
    /\ ForkOff
    /\ AtmOff
    /\ FixtureOff
    /\ \E d0 \in {0, U64_MAX - 2}, body \in {<<>>, <<1, 2, 3>>} :
            block = [header |-> Header(THRESHOLD, 1, 2, d0), body |-> body]
    /\ block_at_call = block
    /\ threshold \in {0, 1, THRESHOLD, U64_MAX}
    /\ i = 1
    /\ tested = <<>>
    /\ mine_pc = "loop"

\* The loop is a single thread that is never suspended: a step that can be
\* taken is taken.
FairSpecMine == InitMineFixed /\ [][NextMine]_vars /\ WF_vars(NextMine)

\* ------------------------------------------------------------- the ATM
\* An arithmetic result that may leave the word: it panics in a build with
\* overflow checks and wraps in one without.
checked(n) ==
    IF n > U64_MAX THEN (IF overflow_checks THEN Panic ELSE Ok(n % (U64_MAX + 1)))
    ELSE Ok(n)

\* crate::hash(_keys)
hash_keys(keys) == keysTab[keys]

Mut_verify_pin_accepts_all(keys, h) == TRUE

verify_pin(keys, h) == hash_keys(keys) = h

\* The match of keys_to_amount: Enter adds nothing.
key_digit(key) ==
    CASE key = "One" -> 1
      [] key = "Two" -> 2
      [] key = "Three" -> 3
      [] key = "Four" -> 4
      [] OTHER -> 0

\* The loop of keys_to_amount from the k-th key on: amount *= 10, then += digit.
RECURSIVE keys_to_amount_loop(_, _, _)
keys_to_amount_loop(keys, k, amount) ==
    IF k > Len(keys) THEN Ok(amount)
    ELSE LET times_ten == checked(amount * 10)
         IN  IF times_ten.panic THEN Panic
             ELSE LET plus_key == checked(times_ten.val + key_digit(keys[k]))
                  IN  IF plus_key.panic THEN Panic
                      ELSE keys_to_amount_loop(keys, k + 1, plus_key.val)

keys_to_amount(keys) == keys_to_amount_loop(keys, 1, 0)

Mut_enter_authenticating_keeps_register(starting_state, correct_pin) ==
    Ok([starting_state EXCEPT
          !.expected_pin_hash =
              IF verify_pin(starting_state.keystroke_register, correct_pin)
              THEN Authenticated ELSE Waiting])

\* Key::Enter while Auth::Authenticating(correct_pin)
enter_authenticating(starting_state, correct_pin) ==
    Ok([starting_state EXCEPT
          !.expected_pin_hash =
              IF verify_pin(starting_state.keystroke_register, correct_pin)
              THEN Authenticated ELSE Waiting,
          !.keystroke_register = <<>>])

Mut_enter_authenticated_unchecked(starting_state) ==
    LET withdraw_amount == keys_to_amount(starting_state.keystroke_register)
    IN  IF withdraw_amount.panic THEN Panic
        ELSE Ok(Atm((starting_state.cash_inside - withdraw_amount.val) % (U64_MAX + 1),
                    Waiting, <<>>))

\* Key::Enter while Auth::Authenticated
enter_authenticated(starting_state) ==
    LET withdraw_amount == keys_to_amount(starting_state.keystroke_register)
    IN  IF withdraw_amount.panic THEN Panic
        ELSE Ok(Atm(IF withdraw_amount.val <= starting_state.cash_inside
                    THEN starting_state.cash_inside - withdraw_amount.val
                    ELSE starting_state.cash_inside,
                    Waiting, <<>>))

Mut_press_numeric_also_waiting(starting_state, key) ==
    Ok([starting_state EXCEPT
          !.keystroke_register = Append(starting_state.keystroke_register, key)])

\* A key other than Enter
press_numeric(starting_state, key) ==
    IF starting_state.expected_pin_hash.tag \in {"Authenticating", "Authenticated"}
    THEN Ok([starting_state EXCEPT
               !.keystroke_register = Append(starting_state.keystroke_register, key)])
    ELSE Ok(starting_state)

Mut_swipe_card_restarts(starting_state, h) ==
    IF starting_state.expected_pin_hash.tag \in {"Waiting", "Authenticating"}
    THEN Ok(Atm(starting_state.cash_inside, Authenticating(h), <<>>))
    ELSE Ok(starting_state)

\* Action::SwipeCard(hash)
swipe_card(starting_state, h) ==
    IF starting_state.expected_pin_hash = Waiting
    THEN Ok(Atm(starting_state.cash_inside, Authenticating(h), <<>>))
    ELSE Ok(starting_state)

\* Atm::next_state; Panic when keys_to_amount overflows under overflow checks.
next_state(starting_state, t) ==
    IF t.kind = "PressKey"
    THEN IF t.key = "Enter"
         THEN CASE starting_state.expected_pin_hash.tag = "Authenticating" ->
                       enter_authenticating(starting_state,
                                            starting_state.expected_pin_hash.pin)
                [] starting_state.expected_pin_hash.tag = "Authenticated" ->
                       enter_authenticated(starting_state)
                [] OTHER -> Ok(starting_state)
         ELSE press_numeric(starting_state, t.key)
    ELSE swipe_card(starting_state, t.hash)

\* The amount a call withdraws: withdraw_amount when the call is Enter while
\* Authenticated and the amount is covered, else 0.
amount_withdrawn(starting_state, t) ==
    IF t = PressKey("Enter") /\ starting_state.expected_pin_hash = Authenticated
    THEN LET withdraw_amount == keys_to_amount(starting_state.keystroke_register)
         IN  IF ~withdraw_amount.panic
                /\ withdraw_amount.val <= starting_state.cash_inside
             THEN withdraw_amount.val ELSE 0
    ELSE 0

\* What the session has seen once the call t is made.
session_after(starting_state, t, new_state) ==
    IF new_state.expected_pin_hash = Waiting THEN NoSession
    ELSE [swiped |-> session.swiped \/ t.kind = "SwipeCard",
          pin_ok |-> \/ session.pin_ok
                     \/ /\ session.swiped
                        /\ t = PressKey("Enter")
                        /\ starting_state.expected_pin_hash.tag = "Authenticating"
                        /\ hash_keys(starting_state.keystroke_register)
                              = starting_state.expected_pin_hash.pin]

\* One call of next_state on the machine's state.  The register grows to at
\* most MaxKeys keys.
AtmCall(t) ==
    /\ atm_call' = [t |-> t, from |-> atm.expected_pin_hash]
    /\ \E r \in {next_state(atm, t)} :
          IF r.panic
          THEN /\ atm_pc' = "panicked"
               /\ UNCHANGED <<atm, withdrawn, session>>
          ELSE /\ \/ Len(r.val.keystroke_register) <= MaxKeys
                  \/ Len(r.val.keystroke_register) <= Len(atm.keystroke_register)
               /\ atm' = r.val
               /\ atm_pc' = "ready"
               /\ withdrawn' = withdrawn + amount_withdrawn(atm, t)
               /\ session' = session_after(atm, t, r.val)
    /\ UNCHANGED <<keysTab, cash_at_start, hashTab, overflow_checks,
                   fork_vars, mine_vars, fixture>>

\* next_state(&atm, &Action::SwipeCard(h))
AtmSwipeCard(h) ==
    /\ atm_pc = "ready"
    /\ AtmCall(SwipeCard(h))

\* next_state(&atm, &Action::PressKey(key))
AtmPressKey(key) ==
    /\ atm_pc = "ready"
    /\ AtmCall(PressKey(key))

\* The PIN hashes on the cards swiped.
CardHashes == {1, 2}

\* The registers the keypad can fill within MaxKeys keys.
Registers == SeqsUpTo(NumericKeys, MaxKeys)

RECURSIVE DecimalDigits(_)
DecimalDigits(n) == IF n < 10 THEN 1 ELSE 1 + DecimalDigits(n \div 10)

\* Registers of as many keys as u64::MAX has digits: one key repeated.
LongRegisters == {[k \in 1..DecimalDigits(U64_MAX) |-> key] : key \in NumericKeys}

\* The registers that hash to the first card's PIN hash; the others hash to
\* the second card's.
PinSets == {{<<>>}, {<<"One">>}, {<<"Two">>, <<"Four", "Four">>}, LongRegisters}

KeyOracles == {[k \in Registers \cup LongRegisters |-> IF k \in S THEN 1 ELSE 2] :
                 S \in PinSets}

AuthStates == {Waiting, Authenticated} \cup {Authenticating(h) : h \in CardHashes}

AtmReady(cash, auth, keys) ==
    /\ atm = Atm(cash, auth, keys)
    /\ keysTab \in KeyOracles
    /\ atm_call = NoAtmCall
    /\ atm_pc = "ready"
    /\ cash_at_start = cash
    /\ withdrawn = 0
    /\ session = NoSession
    /\ hashTab = [h \in {} |-> 0]
    /\ overflow_checks \in BOOLEAN
    /\ ForkOff
    /\ MineOff
    /\ FixtureOff

\* The machine at its main menu.
InitAtm == \E cash \in 0..MaxCash : AtmReady(cash, Waiting, <<>>)

NextAtm ==
    \/ \E h \in CardHashes : AtmSwipeCard(h)
    \/ \E key \in Keys : AtmPressKey(key)

SpecAtm == InitAtm /\ [][NextAtm]_vars

\* The machine in any state.
InitAtmAny ==
    \E cash \in 0..MaxCash, auth \in AuthStates, keys \in Registers :
        AtmReady(cash, auth, keys)

SpecAtmAny == InitAtmAny /\ [][NextAtm]_vars

\* The machine with a register long enough for keys_to_amount to overflow.
InitAtmLong ==
    \E cash \in {0, U64_MAX \div 8}, auth \in AuthStates, keys \in LongRegisters :
        AtmReady(cash, auth, keys)

SpecAtmLong == InitAtmLong /\ [][NextAtm]_vars

\* ------------------------- create_fork_one_side_longer_other_side_heavier
\* Header::genesis(): the fixed sentinel header, parent and height zero.
genesis == Header(0, 0, 0, 0)

\* The oracle asked about x for the first time answers h.
asked(tab, x, h) == IF x \in DOMAIN tab THEN tab ELSE (x :> h) @@ tab

\* self.child(extrinsics_root, consensus_digest), with hash(self) = h.
child(self, h, extrinsics_root, consensus_digest) ==
    Header(h, self.height + 1, extrinsics_root, consensus_digest)

\* u64::max_value() / 1000
FIXTURE_THRESHOLD == U64_MAX \div 1000

\* The digests of extrinsics the fixture hashes.
ExtrinsicsSamples == {0, THRESHOLD + 1}

InitFixture ==
    /\ hashTab = [h \in {} |-> 0]
    /\ overflow_checks \in BOOLEAN
    /\ ForkOff
    /\ MineOff
    /\ AtmOff
    /\ fixture = [NoFixture EXCEPT !.pc = "build"]

\* From Header::genesis() to let mut i = 1: b1, b2, b3, c2 are built, each
\* child asking the oracle for the hash of its parent.
FixtureBuild ==
    /\ fixture.pc = "build"
    /\ \E extrinsics_root \in ExtrinsicsSamples, b2_extrinsics \in ExtrinsicsSamples,
          b3_extrinsics \in ExtrinsicsSamples, hg \in HashSamples,
          hb1 \in HashSamples, hb2 \in HashSamples :
          LET tab_g == asked(hashTab, genesis, hg)
              b1 == child(genesis, tab_g[genesis], extrinsics_root, 0)
              tab_b1 == asked(tab_g, b1, hb1)
              b2 == child(b1, tab_b1[b1], b2_extrinsics, 6)
              tab_b2 == asked(tab_b1, b2, hb2)
              b3 == child(b2, tab_b2[b2], b3_extrinsics, 10)
              c2 == child(b1, tab_b2[b1], b2_extrinsics, 5)
          IN  /\ hashTab' = tab_b2
              /\ fixture' = [pc |-> "loop", b1 |-> b1, b2 |-> b2, c2 |-> c2, i |-> 1,
                              common |-> <<b1>>, longer |-> <<b2, b3>>,
                              more_work |-> <<>>]
    /\ UNCHANGED <<overflow_checks, fork_vars, mine_vars, atm_vars>>

\* One iteration of the fixture's loop: c2.consensus_digest + i, then the
\* test of hash(&c2) against u64::MAX / 1000; break ends the loop.
FixtureLoopStep ==
    /\ fixture.pc = "loop"
    /\ fixture.i <= MaxMineIter
    /\ \E digest \in {checked(fixture.c2.consensus_digest + fixture.i)}, h \in HashSamples :
          IF digest.panic
          THEN /\ fixture' = [fixture EXCEPT !.pc = "panicked"]
               /\ UNCHANGED hashTab
          ELSE LET c2 == [fixture.c2 EXCEPT !.consensus_digest = digest.val]
               IN  /\ hashTab' = asked(hashTab, c2, h)
                   /\ fixture' = IF hashTab'[c2] < FIXTURE_THRESHOLD
                                 THEN [fixture EXCEPT !.c2 = c2, !.pc = "break"]
                                 ELSE [fixture EXCEPT !.c2 = c2, !.i = fixture.i + 1]
    /\ UNCHANGED <<overflow_checks, fork_vars, mine_vars, atm_vars>>

\* more_work.push(c2); (common, longer, more_work)
FixtureReturn ==
    /\ fixture.pc = "break"
    /\ fixture' = [fixture EXCEPT !.more_work = Append(fixture.more_work, fixture.c2),
                                  !.pc = "returned"]
    /\ UNCHANGED <<hashTab, overflow_checks, fork_vars, mine_vars, atm_vars>>

NextFixture == FixtureBuild \/ FixtureLoopStep \/ FixtureReturn

SpecFixture == InitFixture /\ [][NextFixture]_vars

\* ======================================================================
\* The claims.  The metrics below are written from the claims' words, not
\* from the code: lengths, mathematical sums and counts.
\* ======================================================================
Called(fn, policy) == call = [fn |-> fn, policy |-> policy]

Returned(fn, policy) == Called(fn, policy) /\ pc = "returned"

chain_1 == candidate_chains[1]
chain_2 == candidate_chains[2]

Indices == 1..Len(candidate_chains)

\* The work of one header and the total work of a chain, as integers.
WorkOfHeader(h) == IF hash(h) <= THRESHOLD THEN THRESHOLD - hash(h) ELSE 0

RECURSIVE WorkOfRange(_, _, _)
WorkOfRange(chain, lo, hi) ==
    IF lo > hi THEN 0
    ELSE IF lo = hi THEN WorkOfHeader(chain[lo])
    ELSE WorkOfRange(chain, lo, (lo + hi) \div 2)
         + WorkOfRange(chain, (lo + hi) \div 2 + 1, hi)

WorkOf(chain) == WorkOfRange(chain, 1, Len(chain))

Saturated(n) == IF n > U64_MAX THEN U64_MAX ELSE n

Wrapped(n) == n % (U64_MAX + 1)

EvenCount(chain) == Cardinality({k \in 1..Len(chain) : hash(chain[k]) % 2 = 0})

Metric(policy, chain) ==
    CASE policy = "LongestChainRule" -> Len(chain)
      [] policy = "HeaviestChainRule" -> WorkOf(chain)
      [] policy = "MostBlocksWithEvenHash" -> EvenCount(chain)

\* ret is one of the candidates, named by its index.
RetIsCandidate ==
    /\ ret.index \in Indices
    /\ ret.chain = candidate_chains[ret.index]

\* The winner has the greatest metric, and is the last such candidate.
LastOfBest(policy) ==
    /\ RetIsCandidate
    /\ \A j \in Indices :
          Metric(policy, candidate_chains[j]) <= Metric(policy, ret.chain)
    /\ \A j \in Indices : j > ret.index =>
          Metric(policy, candidate_chains[j]) < Metric(policy, ret.chain)

\* The winner has the greatest metric, and is the earliest such candidate.
EarliestOfBest(policy) ==
    /\ RetIsCandidate
    /\ \A j \in Indices :
          Metric(policy, candidate_chains[j]) <= Metric(policy, ret.chain)
    /\ \A j \in Indices : j < ret.index =>
          Metric(policy, candidate_chains[j]) < Metric(policy, ret.chain)

\* C1: for every non-empty candidate list LongestChainRule::best_chain
\* returns a candidate of maximum length, and among the candidates of
\* maximum length the last one in list order.
C1_LongestBestChainIsLastLongest ==
    (Called("best_chain", "LongestChainRule") /\ Len(candidate_chains) > 0)
        => (pc = "returned" /\ LastOfBest("LongestChainRule"))

\* C1 witness: three candidates, the first two tie for the maximum length,
\* the third is shorter, and the second is returned.
C1_Witness ==
    /\ Returned("best_chain", "LongestChainRule")
    /\ Len(candidate_chains) = 3
    /\ Len(candidate_chains[1]) = Len(candidate_chains[2])
    /\ Len(candidate_chains[3]) < Len(candidate_chains[2])
    /\ candidate_chains[1] # candidate_chains[2]
    /\ ret.index = 2

\* C2 (as claimed): HeaviestChainRule::first_chain_is_better is false when
\* the two chains have equal total work, and for every non-empty candidate
\* list HeaviestChainRule::best_chain returns the earliest candidate among
\* those of maximum total work.
C2_HeaviestBestChainIsEarliestHeaviest ==
    /\ (Returned("first_chain_is_better", "HeaviestChainRule")
          /\ WorkOf(chain_1) = WorkOf(chain_2)) => ret.verdict = FALSE
    /\ (Called("best_chain", "HeaviestChainRule") /\ Len(candidate_chains) > 0)
          => (pc = "returned" /\ EarliestOfBest("HeaviestChainRule"))

\* C4 (as claimed): for every two chains HeaviestChainRule's
\* first_chain_is_better returns, and returns true exactly when the sum of
\* the headers' work of chain_1 is strictly greater than that of chain_2.
C4_HeaviestComparesSums ==
    Called("first_chain_is_better", "HeaviestChainRule")
        => (pc = "returned" /\ ret.verdict = (WorkOf(chain_1) > WorkOf(chain_2)))

\* C5 (as claimed): the totals HeaviestChainRule compares never wrap: for
\* every two chains the comparison is made, and its verdict is that of the
\* true sums or that of the sums saturated at u64::MAX.
C5_HeaviestNeverWraps ==
    Called("first_chain_is_better", "HeaviestChainRule")
        => /\ pc = "returned"
           /\ \/ ret.verdict = (WorkOf(chain_1) > WorkOf(chain_2))
              \/ ret.verdict = (Saturated(WorkOf(chain_1)) > Saturated(WorkOf(chain_2)))

\* C6: LongestChainRule::first_chain_is_better(c1, c2) returns true iff
\* len(c1) >= len(c2): true on equal lengths (so in both directions, and
\* for (c, c)), true for the longer against the shorter and false for the
\* shorter against the longer, whatever the headers hash to.
C6_LongestComparesLengths ==
    Called("first_chain_is_better", "LongestChainRule")
        => /\ pc = "returned"
           /\ Len(chain_1) = Len(chain_2) => ret.verdict = TRUE
           /\ Len(chain_1) > Len(chain_2) => ret.verdict = TRUE
           /\ Len(chain_1) < Len(chain_2) => ret.verdict = FALSE

\* C6 witness: two different chains of the same positive length, and the
\* verdict is true.
C6_Witness ==
    /\ Returned("first_chain_is_better", "LongestChainRule")
    /\ Len(chain_1) = Len(chain_2)
    /\ Len(chain_1) > 0
    /\ chain_1 # chain_2
    /\ ret.verdict = TRUE

\* C7: MostBlocksWithEvenHash::first_chain_is_better(c1, c2) returns true
\* iff c1 has strictly more headers of even hash than c2, so a non-empty
\* chain of even hashes only beats a chain of odd hashes only, whatever
\* their lengths; and best_chain returns the earliest candidate among those
\* of the greatest even-hash count.
C7_EvenComparesCounts ==
    /\ Called("first_chain_is_better", "MostBlocksWithEvenHash")
          => /\ pc = "returned"
             /\ ret.verdict = (EvenCount(chain_1) > EvenCount(chain_2))
             /\ (/\ Len(chain_1) > 0
                 /\ EvenCount(chain_1) = Len(chain_1)
                 /\ EvenCount(chain_2) = 0) => ret.verdict = TRUE
    /\ (Called("best_chain", "MostBlocksWithEvenHash") /\ Len(candidate_chains) > 0)
          => (pc = "returned" /\ EarliestOfBest("MostBlocksWithEvenHash"))

\* C7 witness: a chain of even hashes only beats a longer chain of odd
\* hashes only.
C7_Witness ==
    /\ Returned("first_chain_is_better", "MostBlocksWithEvenHash")
    /\ Len(chain_1) > 0
    /\ EvenCount(chain_1) = Len(chain_1)
    /\ Len(chain_2) > Len(chain_1)
    /\ EvenCount(chain_2) = 0
    /\ ret.verdict = TRUE

\* C8 (as claimed): under each of the three policies first_chain_is_better
\* returns true iff metric(chain_1) >= metric(chain_2), so it is true when
\* the metrics are equal.
C8_AllPoliciesNonStrict ==
    \A policy \in Policies :
        Returned("first_chain_is_better", policy)
            => ret.verdict = (Metric(policy, chain_1) >= Metric(policy, chain_2))

\* C8 (amended): LongestChainRule returns true iff len(chain_1) >=
\* len(chain_2); MostBlocksWithEvenHash returns true iff the even-hash count
\* of chain_1 is strictly greater; HeaviestChainRule, when it returns,
\* returns true iff the work total of chain_1, as accumulated in the machine
\* word, is strictly greater.  The last two return false on equal metrics.
C8_OnlyLongestIsNonStrict ==
    /\ Called("first_chain_is_better", "LongestChainRule")
          => (pc = "returned" /\ ret.verdict = (Len(chain_1) >= Len(chain_2)))
    /\ Called("first_chain_is_better", "MostBlocksWithEvenHash")
          => (pc = "returned" /\ ret.verdict = (EvenCount(chain_1) > EvenCount(chain_2)))
    /\ Returned("first_chain_is_better", "HeaviestChainRule")
          => /\ ret.verdict = (Wrapped(WorkOf(chain_1)) > Wrapped(WorkOf(chain_2)))
             /\ WorkOf(chain_1) = WorkOf(chain_2) => ret.verdict = FALSE

\* C8 witness: two different non-empty chains of equal positive work, and
\* HeaviestChainRule's verdict is false.
C8_Witness ==
    /\ Returned("first_chain_is_better", "HeaviestChainRule")
    /\ chain_1 # chain_2
    /\ WorkOf(chain_1) = WorkOf(chain_2)
    /\ WorkOf(chain_1) > 0
    /\ ret.verdict = FALSE

\* C9: best_chain called with an empty candidate list panics under every
\* policy; it returns nothing.
C9_EmptyListPanics ==
    (call.fn = "best_chain" /\ Len(candidate_chains) = 0) => pc = "panicked"

\* C9 witness: best_chain has been called on the empty list and has panicked.
C9_Witness ==
    /\ call.fn = "best_chain"
    /\ candidate_chains = <<>>
    /\ pc = "panicked"

\* Some chain's total work leaves the word, in a build that checks overflow.
WorkOverflowPanics ==
    /\ call.policy = "HeaviestChainRule"
    /\ overflow_checks
    /\ \E j \in Indices : WorkOf(candidate_chains[j]) > U64_MAX

HasEmptyArgument ==
    /\ call.fn = "first_chain_is_better"
    /\ (chain_1 = <<>> \/ chain_2 = <<>>)

HasEmptyCandidate ==
    /\ call.fn = "best_chain"
    /\ \E j \in Indices : candidate_chains[j] = <<>>

\* C10 (as claimed): a call of first_chain_is_better with an empty chain as
\* either argument, or of best_chain with an empty chain among the
\* candidates, ends in an error under every policy.
C10_EmptyChainFailsFast ==
    (HasEmptyArgument \/ HasEmptyCandidate) => pc = "panicked"

\* C10 (amended): an empty chain is no error.  It is compared as a chain of
\* metric 0: against an empty chain_2 LongestChainRule returns true, and the
\* other two policies return whether chain_1's metric is positive; an empty
\* chain_1 gets true only from LongestChainRule against an empty chain_2.
\* best_chain on a list that holds empty chains returns one of the
\* candidates.  The only failure of such a call is HeaviestChainRule's
\* overflow of another chain's work in a build that checks overflow.
C10_EmptyChainIsMetricZero ==
    (HasEmptyArgument \/ HasEmptyCandidate)
        => /\ pc = "panicked" => WorkOverflowPanics
           /\ (pc = "returned" /\ call.fn = "best_chain") => RetIsCandidate
           /\ (pc = "returned" /\ call.fn = "first_chain_is_better") =>
                 /\ chain_2 = <<>> =>
                       ret.verdict = IF call.policy = "LongestChainRule" THEN TRUE
                             ELSE Wrapped(Metric(call.policy, chain_1)) > 0
                 /\ (chain_1 = <<>> /\ chain_2 # <<>>) => ret.verdict = FALSE

\* C10 witness: HeaviestChainRule has compared a non-empty chain of positive
\* work with the empty chain and has returned true.
C10_Witness ==
    /\ Returned("first_chain_is_better", "HeaviestChainRule")
    /\ chain_2 = <<>>
    /\ WorkOf(chain_1) > 0
    /\ ret.verdict = TRUE

\* C3: when mine_extra_hard returns, the header hashes below the threshold,
\* and the block is the block that was passed in but for its header's
\* consensus_digest.
C3_MinedBelowThresholdOthersKept ==
    mine_pc = "returned"
        => /\ hash(block.header) < threshold
           /\ block.header.parent = block_at_call.header.parent
           /\ block.header.height = block_at_call.header.height
           /\ block.header.extrinsics_root = block_at_call.header.extrinsics_root
           /\ block.body = block_at_call.body

\* C3 witness: mining has returned after more than one iteration, with a
\* digest other than the one passed in, under a threshold that some sampled
\* hash does not meet.
C3_Witness ==
    /\ mine_pc = "returned"
    /\ Len(tested) > 1
    /\ threshold = THRESHOLD
    /\ block.header.consensus_digest # block_at_call.header.consensus_digest
    /\ block.body # <<>>

\* C11: mining a header whose digest is d0 at call time tests d0 + k at the
\* k-th iteration (the original digest plus the counter), so the digest it
\* returns with is d0 plus the number of iterations made.
C11_TestedDigestIsOriginalPlusCounter ==
    LET d0 == block_at_call.header.consensus_digest
    IN  /\ \A k \in 1..Len(tested) : tested[k] = (d0 + k) % (U64_MAX + 1)
        /\ mine_pc = "returned"
              => block.header.consensus_digest = (d0 + Len(tested)) % (U64_MAX + 1)

\* Some value of consensus_digest makes the header passed in hash below a
\* threshold above 0.
Solvable ==
    /\ threshold > 0
    /\ \E h \in DOMAIN hashTab :
          /\ h = [block_at_call.header EXCEPT !.consensus_digest = h.consensus_digest]
          /\ hashTab[h] < threshold

\* C12: when some digest makes the header hash below a threshold above 0, the
\* loop returns normally (here: or is still searching when the model's
\* iteration bound is reached), without aborting on overflow of
\* consensus_digest + i, and it returns at the first tested digest that
\* meets the threshold.
C12_SolvableMiningReturns ==
    /\ (mine_pc = "loop" /\ Solvable) ~> (mine_pc = "returned" \/ i > MaxMineIter)
    /\ [](mine_pc = "returned"
            => \A k \in 1..(Len(tested) - 1) :
                  hash([block.header EXCEPT !.consensus_digest = tested[k]])
                      >= threshold)

\* ---------------------------------------------------------- ATM claims
\* The step is the call next_state(atm, t).
AtmStep(t) == atm_call'.t = t

\* The amount a register spells, read as a decimal number.
RECURSIVE SpelledAmount(_)
SpelledAmount(keys) ==
    IF Len(keys) = 0 THEN 0
    ELSE 10 * SpelledAmount(SubSeq(keys, 1, Len(keys) - 1)) + key_digit(keys[Len(keys)])

\* C13: PressKey(Enter) while Authenticating(h) leads to Authenticated when
\* hash(keystroke_register) = h and to Waiting otherwise; either way the
\* register is emptied and cash_inside is unchanged.
C13_EnterWhileAuthenticating ==
    [][(AtmStep(PressKey("Enter")) /\ atm.expected_pin_hash.tag = "Authenticating")
          => /\ atm_pc' = "ready"
             /\ atm'.expected_pin_hash =
                    IF hash_keys(atm.keystroke_register) = atm.expected_pin_hash.pin
                    THEN Authenticated ELSE Waiting
             /\ atm'.keystroke_register = <<>>
             /\ atm'.cash_inside = atm.cash_inside]_vars

\* C13 witness: Enter was pressed while Authenticating, the register (not the
\* empty one) hashed to the card's PIN hash, and the machine with cash inside
\* is Authenticated with an empty register.
C13_Witness ==
    /\ atm_call.t = PressKey("Enter")
    /\ atm_call.from.tag = "Authenticating"
    /\ atm.expected_pin_hash = Authenticated
    /\ atm.keystroke_register = <<>>
    /\ hash_keys(<<>>) # atm_call.from.pin
    /\ atm.cash_inside > 0

\* C14: PressKey(Enter) while Authenticated, the register spelling amount a:
\* cash_inside becomes cash_inside - a when a <= cash_inside and is unchanged
\* otherwise; either way the next state is Waiting with an empty register.
C14_EnterWhileAuthenticated ==
    [][(AtmStep(PressKey("Enter")) /\ atm.expected_pin_hash = Authenticated)
          => LET a == SpelledAmount(atm.keystroke_register)
             IN  /\ atm_pc' = "ready"
                 /\ atm'.cash_inside = IF a <= atm.cash_inside
                                       THEN atm.cash_inside - a
                                       ELSE atm.cash_inside
                 /\ atm'.expected_pin_hash = Waiting
                 /\ atm'.keystroke_register = <<>>]_vars

\* C15: SwipeCard(h) in Waiting leads to Authenticating(h) with the same
\* cash_inside and an empty register; in Authenticating or Authenticated it
\* returns the whole state unchanged.
C15_SwipeCardOnlyFromWaiting ==
    [][\A h \in CardHashes :
          AtmStep(SwipeCard(h))
             => /\ atm_pc' = "ready"
                /\ atm' = IF atm.expected_pin_hash = Waiting
                          THEN Atm(atm.cash_inside, Authenticating(h), <<>>)
                          ELSE atm]_vars

\* C15 witness: another card was swiped while Authenticating with keys
\* already typed: the expected PIN hash is still the first card's and the
\* keys are still in the register.
C15_Witness ==
    /\ atm_call.t.kind = "SwipeCard"
    /\ atm_call.from.tag = "Authenticating"
    /\ atm.expected_pin_hash.tag = "Authenticating"
    /\ atm.expected_pin_hash.pin # atm_call.t.hash
    /\ atm.keystroke_register # <<>>

\* C16: a key pressed while Waiting leaves the whole state unchanged; a
\* numeric key pressed while Authenticating or Authenticated appends that key
\* to the register and changes neither the Auth nor cash_inside.
C16_KeyPresses ==
    [][\A key \in Keys :
          AtmStep(PressKey(key))
             => /\ atm.expected_pin_hash = Waiting => atm' = atm /\ atm_pc' = "ready"
                /\ (key \in NumericKeys /\ atm.expected_pin_hash # Waiting)
                      => /\ atm_pc' = "ready"
                         /\ atm' = [atm EXCEPT !.keystroke_register =
                                        Append(atm.keystroke_register, key)]]_vars

\* C16 witness: a numeric key was pressed while Authenticated and is the
\* last of two keys in the register.
C16_Witness ==
    /\ atm_call.t.kind = "PressKey"
    /\ atm_call.t.key \in NumericKeys
    /\ atm_call.from = Authenticated
    /\ atm.expected_pin_hash = Authenticated
    /\ Len(atm.keystroke_register) = 2
    /\ atm.keystroke_register[2] = atm_call.t.key
    /\ atm.keystroke_register[1] # atm_call.t.key

\* C18: from Waiting with an empty register, cash_inside changes only at
\* PressKey(Enter) taken in Authenticated, and Authenticated is entered only
\* by PressKey(Enter) taken in Authenticating(h) with hash(register) = h; so
\* whenever cash is withdrawn the session has seen a SwipeCard and then a
\* correct PIN entry.
C18_CashOnlyAfterSwipeAndPin ==
    /\ [][atm'.cash_inside # atm.cash_inside
            => /\ AtmStep(PressKey("Enter"))
               /\ atm.expected_pin_hash = Authenticated
               /\ session.swiped /\ session.pin_ok]_vars
    /\ [][(atm'.expected_pin_hash = Authenticated /\ atm.expected_pin_hash # Authenticated)
            => /\ AtmStep(PressKey("Enter"))
               /\ atm.expected_pin_hash.tag = "Authenticating"
               /\ hash_keys(atm.keystroke_register) = atm.expected_pin_hash.pin]_vars
    /\ [](atm.expected_pin_hash = Authenticated => session.swiped /\ session.pin_ok)
    /\ [](atm.expected_pin_hash.tag = "Authenticating" => session.swiped)

\* C18 witness: cash has been withdrawn, twice over (the second withdrawal in
\* a session of its own), and the machine is back at Waiting.
C18_Witness ==
    /\ atm_call = [t |-> PressKey("Enter"), from |-> Authenticated]
    /\ atm.expected_pin_hash = Waiting
    /\ withdrawn > 4
    /\ atm.cash_inside < cash_at_start

\* C19: from any initial state, cash_inside never increases and stays a u64
\* (no underflow); it always equals the initial cash minus the sum of the
\* amounts withdrawn, and an amount is withdrawn only when it is at most the
\* cash then inside.
C19_CashAccounting ==
    /\ [][atm'.cash_inside <= atm.cash_inside]_vars
    /\ [](atm.cash_inside \in 0..U64_MAX)
    /\ [](atm.cash_inside = cash_at_start - withdrawn)
    /\ [][withdrawn' - withdrawn \in 0..atm.cash_inside]_vars

\* C19 witness: Enter was pressed while Authenticated, an amount above 0 has
\* been withdrawn so far and there is still cash inside.
C19_Witness ==
    /\ atm_call = [t |-> PressKey("Enter"), from |-> Authenticated]
    /\ withdrawn > 0
    /\ atm.cash_inside > 0
    /\ atm.cash_inside = cash_at_start - withdrawn
    /\ session = NoSession
    /\ atm_pc = "ready"

\* The candidate list in every order.
Reorderings(chains) ==
    {[k \in 1..Len(chains) |-> chains[q[k]]] : q \in Permutations(1..Len(chains))}

\* C17: for each policy and every non-empty candidate list, best_chain returns
\* one of the candidates, its key (length, total work, even-hash count) is at
\* least the key of every candidate, and best_chain on any reordering of the
\* list returns a chain of the same key.
C17_BestChainHasMaximalKey ==
    \A policy \in Policies :
        (Called("best_chain", policy) /\ Len(candidate_chains) > 0)
            => /\ pc = "returned"
               /\ RetIsCandidate
               /\ \A j \in Indices :
                     Metric(policy, ret.chain) >= Metric(policy, candidate_chains[j])
               /\ \A reordered \in Reorderings(candidate_chains) :
                     \E r \in {best_chain(policy, reordered)} :
                         /\ ~r.panic
                         /\ Metric(policy, r.val.chain) = Metric(policy, ret.chain)

\* The headers of suffix continue the chain that ends in last: each header's
\* parent digest is the hash of its predecessor and its height one more.
Continues(last, suffix) ==
    \A k \in 1..Len(suffix) :
        LET predecessor == IF k = 1 THEN last ELSE suffix[k - 1]
        IN  /\ predecessor \in DOMAIN hashTab
            /\ suffix[k].parent = hash(predecessor)
            /\ suffix[k].height = predecessor.height + 1

\* The fixture's result without the claim about genesis.
FixtureShape ==
    /\ fixture.common # <<>>
    /\ \A k \in 1..Len(fixture.common) :
          /\ \A j \in 1..Len(fixture.longer) : fixture.longer[j] # fixture.common[k]
          /\ \A j \in 1..Len(fixture.more_work) : fixture.more_work[j] # fixture.common[k]
    /\ Continues(fixture.common[Len(fixture.common)], fixture.longer)
    /\ Continues(fixture.common[Len(fixture.common)], fixture.more_work)
    /\ Len(fixture.longer) > Len(fixture.more_work)
    /\ \A j \in 1..Len(fixture.more_work) :
          /\ fixture.more_work[j] \in DOMAIN hashTab
          /\ hash(fixture.more_work[j]) < U64_MAX \div 1000

\* C20: the fixture returns (common, longer, heavier) where common starts
\* with the genesis header, each suffix is disjoint from common and validly
\* continues common's last header, longer has more headers than heavier, and
\* the heavier suffix's header hashes below u64::MAX / 1000.
C20_FixtureForkShape ==
    fixture.pc = "returned"
        => /\ fixture.common # <<>>
           /\ fixture.common[1] = genesis
           /\ FixtureShape

\* The rest of C20's statement, which the fixture meets.
FixtureShapeHolds == fixture.pc = "returned" => FixtureShape

====
